---- MODULE Spec2Model ----
(***************************************************************************)
(* Model of src/api/genai_app.py: the /scan handler of PhishGuard AI, its  *)
(* lexical feature extractor, the heuristic scorer and the fusion with the *)
(* score of the external reasoning service.                                *)
(*                                                                         *)
(* Numbers.  ml_score is an integer.  genai_score and risk_score are kept  *)
(* in hundredths (8318 is 83.18) and the fused score in ten-thousandths    *)
(* (749990 is 74.999), so 0.45*ml + 0.55*genai is 4500*ml + 55*genai100    *)
(* exactly.  The inputs are chosen so that the exact value is never a tie  *)
(* in the third decimal; on those inputs the IEEE double computed by the   *)
(* source compares against 45 and 75, and rounds to 2 places, exactly like *)
(* the decimal value.                                                      *)
(*                                                                         *)
(* Strings that the code inspects character by character (hosts, URLs) are *)
(* sequences of one-character strings.                                     *)
(***************************************************************************)
EXTENDS Integers, Sequences, FiniteSets, TLC

\* tldextract_bound  whether the global name tldextract resolves when
\*                   get_url_features runs: the module never imports it, so
\*                   as shipped the lookup raises NameError; TRUE is the
\*                   module with the package bound in its globals
\* pc[i]             "idle", "awaiting" (inside the outbound call) or "done"
\* req[i]            the ScanRequest (scheme, netloc and path length of its url)
\* features[i], ml[i]  get_url_features(...) and ml_score_calc(...) of the request
\* groq_calls[i]     outbound calls made for the request
\* reply[i]          what the outbound call produced
\* outcome[i]        the exception or the ScanResponse that scan ends with
\* args, ret         argument and return value of a pure function run on its own
VARIABLES tldextract_bound, pc, req, features, ml, groq_calls, reply, outcome, args, ret

vars == <<tldextract_bound, pc, req, features, ml, groq_calls, reply, outcome, args, ret>>

\* ------------------------------------------------------------------ bounds
\* largest integral genai_score the external service is made to answer
MaxGenaiInt == 100
\* longest top_reasons list of an external reply
MaxTopReasons == 3
\* hosts of up to this many characters are enumerated exhaustively for is_ip
MaxHostLen == 7
\* largest num_hyphens of a free FeatureSet
MaxHyphens == 4
\* free FeatureSets take url_length in 69 .. 70 + LenSpan
LenSpan == 2

\* --------------------------------------------------------------- utilities
Min(a, b) == IF a <= b THEN a ELSE b

Count(s, c) == Cardinality({i \in 1..Len(s) : s[i] = c})

StartsWith(s, p) == Len(s) >= Len(p) /\ \A i \in 1..Len(p) : s[i] = p[i]

Take(s, n) == SubSeq(s, 1, Min(n, Len(s)))

SeqsUpTo(S, n) == UNION {[1..k -> S] : k \in 0..n}

Digits == {"0", "1", "2", "3", "4", "5", "6", "7", "8", "9"}

\* ------------------------------------------------------------------- is_ip
\* positions right after a run of 1 to 3 digits that starts at position i
DigitRunEnds(s, i) ==
    {j \in (i + 1)..(i + 3) : j <= Len(s) + 1 /\ \A k \in i..(j - 1) : s[k] \in Digits}

RECURSIVE MatchTail(_, _, _, _)
\* (\.\d{1,3}){n} from position i; full: the match must end at the end of s
MatchTail(s, i, n, full) ==
    IF n = 0
    THEN (full => i = Len(s) + 1)
    ELSE /\ i <= Len(s)
         /\ s[i] = "."
         /\ \E j \in DigitRunEnds(s, i + 1) : MatchTail(s, j, n - 1, full)

\* re.match in place of re.fullmatch: trailing characters are accepted
is_ip_prefix(host) == \E j \in DigitRunEnds(host, 1) : MatchTail(host, j, 3, FALSE)

\* re.fullmatch(r"\d{1,3}(\.\d{1,3}){3}", host)
is_ip(host) == \E j \in DigitRunEnds(host, 1) : MatchTail(host, j, 3, TRUE)

\* -------------------------------------------------------- get_url_features
SUSPICIOUS_TLDS == {"xyz", "zip", "click", "top", "tk", "ml", "ga", "cf"}

HTTPS == <<"h", "t", "t", "p", "s">>

SchemeChars(scheme) == IF scheme = "https" THEN HTTPS ELSE <<"h", "t", "t", "p">>

\* str(req.url): scheme "://" netloc, then a path of req.rest characters
UrlString(u) ==
    SchemeChars(u.scheme) \o <<":", "/", "/">> \o u.netloc
        \o [i \in 1..u.rest |-> IF i = 1 THEN "/" ELSE "p"]

\* ext is what tldextract.extract(url) returned: ext.fqdn and ext.suffix
get_url_features(url, ext) ==
    [host           |-> ext.fqdn,
     url_length     |-> Len(url),
     num_dots       |-> Count(ext.fqdn, "."),
     num_hyphens    |-> Count(ext.fqdn, "-"),
     has_https      |-> StartsWith(url, HTTPS),
     looks_like_ip  |-> is_ip(ext.fqdn),
     suspicious_tld |-> ext.suffix \in SUSPICIOUS_TLDS]

\* ----------------------------------------------------------- ml_score_calc
R_IP == "IP address used instead of domain"
R_TLD == "Suspicious TLD detected"
R_LONG == "Unusually long URL"
R_HYPHENS == "Too many hyphens in domain"
R_HTTPS == "HTTPS not used"

\* one "if cond: score += w; reasons.append(r)" statement
Rule(acc, cond, w, r) ==
    IF cond THEN [score |-> acc.score + w, reasons |-> Append(acc.reasons, r)] ELSE acc

\* the hyphen rule fires from 4 hyphens on instead of 3
ml_score_calc_hyphens(f) ==
    LET s1 == Rule([score |-> 0, reasons |-> <<>>], f.looks_like_ip, 20, R_IP)
        s2 == Rule(s1, f.suspicious_tld, 15, R_TLD)
        s3 == Rule(s2, f.url_length > 70, 10, R_LONG)
        s4 == Rule(s3, f.num_hyphens > 3, 10, R_HYPHENS)
        s5 == Rule(s4, ~f.has_https, 10, R_HTTPS)
    IN  [score |-> Min(s5.score, 100), reasons |-> s5.reasons]

\* the HTTPS rule rewards HTTPS instead of penalising its absence
ml_score_calc_reward(f) ==
    LET s1 == Rule([score |-> 0, reasons |-> <<>>], f.looks_like_ip, 20, R_IP)
        s2 == Rule(s1, f.suspicious_tld, 15, R_TLD)
        s3 == Rule(s2, f.url_length > 70, 10, R_LONG)
        s4 == Rule(s3, f.num_hyphens >= 3, 10, R_HYPHENS)
        s5 == Rule(s4, f.has_https, -10, R_HTTPS)
    IN  [score |-> Min(s5.score, 100), reasons |-> s5.reasons]

\* the IP rule weighs 40 instead of 20
ml_score_calc_heavy(f) ==
    LET s1 == Rule([score |-> 0, reasons |-> <<>>], f.looks_like_ip, 40, R_IP)
        s2 == Rule(s1, f.suspicious_tld, 15, R_TLD)
        s3 == Rule(s2, f.url_length > 70, 10, R_LONG)
        s4 == Rule(s3, f.num_hyphens >= 3, 10, R_HYPHENS)
        s5 == Rule(s4, ~f.has_https, 10, R_HTTPS)
    IN  [score |-> Min(s5.score, 100), reasons |-> s5.reasons]

ml_score_calc(f) ==
    LET s1 == Rule([score |-> 0, reasons |-> <<>>], f.looks_like_ip, 20, R_IP)
        s2 == Rule(s1, f.suspicious_tld, 15, R_TLD)
        s3 == Rule(s2, f.url_length > 70, 10, R_LONG)
        s4 == Rule(s3, f.num_hyphens >= 3, 10, R_HYPHENS)
        s5 == Rule(s4, ~f.has_https, 10, R_HTTPS)
    IN  [score |-> Min(s5.score, 100), reasons |-> s5.reasons]

\* ------------------------------------------------ external reply (parsed JSON)
\* a key of the parsed object: missing, or present with a JSON value
Absent == [t |-> "absent"]
Null == [t |-> "null"]
Num(v) == [t |-> "num", v |-> v]
Str(v) == [t |-> "str", v |-> v]
List(v) == [t |-> "list", v |-> v]

\* dict.get(key, default)
DictGet(d, key, default) == IF d[key].t = "absent" THEN default ELSE d[key]

Error(exc) == [kind |-> "error", exc |-> exc]

Result(body) == [kind |-> "result", body |-> body]

NoneRec == [kind |-> "none"]

\* ------------------------------------------------------------------- scan
\* genai.get("genai_score", 0): the neutral fallback is lost
GenaiScoreOf_zero(genai) == DictGet(genai, "genai_score", Num(0))

\* genai.get("genai_score", 50), in hundredths
GenaiScoreOf(genai) == DictGet(genai, "genai_score", Num(5000))

\* the two weights exchanged
FinalScore_swapped(ml_score, genai_score) == 5500 * ml_score + 45 * genai_score

\* 0.45 * ml_score + 0.55 * genai_score, in ten-thousandths
FinalScore(ml_score, genai_score) == 4500 * ml_score + 55 * genai_score

VerdictOf(final_score) ==
    IF final_score >= 750000 THEN "PHISHING"
    ELSE IF final_score >= 450000 THEN "SUSPICIOUS"
    ELSE "SAFE"

\* round(final_score, 2), in hundredths: to nearest, a tie to the even neighbour
Round2(final_score) ==
    LET lo == final_score \div 100
        rem == final_score % 100
    IN  IF rem > 50 \/ (rem = 50 /\ lo % 2 = 1) THEN lo + 1 ELSE lo

\* the slice is dropped
MergeReasons_unsliced(ml_reasons, top_reasons) == ml_reasons \o top_reasons

\* (ml_reasons + genai.get("top_reasons", []))[:6]
MergeReasons(ml_reasons, top_reasons) == Take(ml_reasons \o top_reasons, 6)

\* the ScanResponse built at the end of scan
Response(r, f, ml_res, genai, genai_score, final_score, verdict, top) ==
    [url           |-> r,
     verdict       |-> verdict,
     risk_score    |-> Round2(final_score),
     ml_score      |-> ml_res.score,
     genai_score   |-> genai_score,
     reasons       |-> MergeReasons(ml_res.reasons, top),
     signals       |-> [features |-> f],
     genai_summary |-> genai]

\* the label of the external reply is returned as the verdict when it has one
scan_tail_label(r, f, ml_res, genai) ==
    LET genai_score == GenaiScoreOf(genai)
        top == DictGet(genai, "top_reasons", List(<<>>))
    IN  IF genai_score.t # "num" THEN Error("TypeError")
        ELSE IF top.t # "list" THEN Error("TypeError")
        ELSE LET final_score == FinalScore(ml_res.score, genai_score.v)
                 verdict == IF genai.verdict.t = "str" THEN genai.verdict.v
                            ELSE VerdictOf(final_score)
             IN  Result(Response(r, f, ml_res, genai, genai_score.v, final_score, verdict, top.v))

\* scan from "genai_score = genai.get(...)" to the return, genai a parsed object
scan_tail(r, f, ml_res, genai) ==
    LET genai_score == GenaiScoreOf(genai)
        top == DictGet(genai, "top_reasons", List(<<>>))
    IN  IF genai_score.t # "num" THEN Error("TypeError")
        ELSE IF top.t # "list" THEN Error("TypeError")
        ELSE LET final_score == FinalScore(ml_res.score, genai_score.v)
                 verdict == VerdictOf(final_score)
             IN  Result(Response(r, f, ml_res, genai, genai_score.v, final_score, verdict, top.v))

\* the parsed object {} that the fallback substitutes
EmptyDict == [genai_score |-> Absent, verdict |-> Absent, top_reasons |-> Absent, notes |-> Absent]

\* a failed call or an unusable reply is answered from the heuristic score alone
ScanOutcome_fallback(r, f, ml_res, rep) ==
    IF rep.kind = "dict" THEN scan_tail(r, f, ml_res, rep.value)
    ELSE scan_tail(r, f, ml_res, EmptyDict)

\* what scan does with the answer of the external call: nothing is caught
ScanOutcome(r, f, ml_res, rep) ==
    CASE rep.kind = "failure" -> Error("APIError")
      [] rep.kind = "invalid" -> Error("JSONDecodeError")
      [] rep.kind = "nondict" -> Error("AttributeError")
      [] rep.kind = "dict"    -> scan_tail(r, f, ml_res, rep.value)

\* ------------------------------------------------------------ input domains
Slots == {1, 2}

H_IP == <<"1", "9", "2", ".", "1", "6", "8", ".", "1", ".", "1">>
H_HYPHENS == <<"a", "-", "b", "-", "c", "-", "d", ".", "x", "y", "z">>
H_PLAIN == <<"e", "x", "a", "m", "p", "l", "e", ".", "c", "o", "m">>

ScanHosts == {H_IP, H_HYPHENS, H_PLAIN}

\* path lengths: with an 11-character host they put url_length on both sides of 70
RestLens == {1, 51, 52, 53}

Urls == [scheme : {"http", "https"}, netloc : ScanHosts, rest : RestLens]

\* tldextract is a third-party package: any of these may be its answer
Extracts == [fqdn : ScanHosts \cup {<<>>}, suffix : {"", "com", "xyz"}]

FractionalScores == {-1000, 8181, 8318, 9954, 13636, 15000}

GenaiScores == {100 * k : k \in 0..MaxGenaiInt} \cup FractionalScores

TopReasonTexts == {"Brand impersonation", R_HTTPS}

TopReasonLists == SeqsUpTo(TopReasonTexts, MaxTopReasons)

Labels == {Absent, Str("SAFE"), Str("SUSPICIOUS"), Str("PHISHING"), Str("MAYBE")}

Dict(g, v, t, n) == [kind |-> "dict", value |-> [genai_score |-> g, verdict |-> v, top_reasons |-> t, notes |-> n]]

FailedReplies == {[kind |-> "failure"], [kind |-> "invalid"], [kind |-> "nondict"]}

ScoreReplies ==
    {Dict(g, Str("SAFE"), Absent, Str("n")) :
        g \in {Num(x) : x \in GenaiScores} \cup {Absent, Null, Str("high")}}

ReasonReplies ==
    {Dict(g, Str("SAFE"), t, Absent) :
        g \in {Absent, Num(8000)},
        t \in {List(l) : l \in TopReasonLists} \cup {Absent, Null, Str("because")}}

Replies == FailedReplies \cup ScoreReplies \cup ReasonReplies

PairUrls == [scheme : {"http", "https"}, netloc : {H_PLAIN}, rest : {1}]

PairExtracts == {[fqdn |-> H_PLAIN, suffix |-> "com"], [fqdn |-> H_HYPHENS, suffix |-> "xyz"]}

PairReplies ==
    {[kind |-> "failure"]} \cup
    {Dict(g, v, List(<<"Brand impersonation">>), n) :
        g \in {Absent, Num(2000), Num(8000), Num(15000)},
        v \in Labels,
        n \in {Absent, Str("n1"), Str("n2")}}

\* ------------------------------------------------------------ the handler
\* scan up to the outbound call of genai_analysis (features, heuristic score,
\* request sent); the name tldextract is looked up when get_url_features runs
scan_call(i, u, ext) ==
    /\ pc[i] = "idle"
    /\ req' = [req EXCEPT ![i] = u]
    /\ IF tldextract_bound
       THEN LET f == get_url_features(UrlString(u), ext)
            IN  /\ features' = [features EXCEPT ![i] = f]
                /\ ml' = [ml EXCEPT ![i] = ml_score_calc(f)]
                /\ groq_calls' = [groq_calls EXCEPT ![i] = @ + 1]
                /\ pc' = [pc EXCEPT ![i] = "awaiting"]
                /\ UNCHANGED outcome
       ELSE /\ outcome' = [outcome EXCEPT ![i] = Error("NameError")]
            /\ pc' = [pc EXCEPT ![i] = "done"]
            /\ UNCHANGED <<features, ml, groq_calls>>
    /\ UNCHANGED <<tldextract_bound, reply, args, ret>>

\* the outbound call returns or raises, and scan runs to its end
groq_reply(i, rep) ==
    /\ pc[i] = "awaiting"
    /\ reply' = [reply EXCEPT ![i] = rep]
    /\ outcome' = [outcome EXCEPT ![i] = ScanOutcome(req[i], features[i], ml[i], rep)]
    /\ pc' = [pc EXCEPT ![i] = "done"]
    /\ UNCHANGED <<tldextract_bound, req, features, ml, groq_calls, args, ret>>

\* the response or the error has gone to the caller; nothing of the request is kept
respond(i) ==
    /\ pc[i] = "done"
    /\ pc' = [pc EXCEPT ![i] = "idle"]
    /\ req' = [req EXCEPT ![i] = NoneRec]
    /\ features' = [features EXCEPT ![i] = NoneRec]
    /\ ml' = [ml EXCEPT ![i] = NoneRec]
    /\ groq_calls' = [groq_calls EXCEPT ![i] = 0]
    /\ reply' = [reply EXCEPT ![i] = NoneRec]
    /\ outcome' = [outcome EXCEPT ![i] = NoneRec]
    /\ UNCHANGED <<tldextract_bound, args, ret>>

ScanInit ==
    /\ tldextract_bound \in BOOLEAN
    /\ pc = [i \in Slots |-> "idle"]
    /\ req = [i \in Slots |-> NoneRec]
    /\ features = [i \in Slots |-> NoneRec]
    /\ ml = [i \in Slots |-> NoneRec]
    /\ groq_calls = [i \in Slots |-> 0]
    /\ reply = [i \in Slots |-> NoneRec]
    /\ outcome = [i \in Slots |-> NoneRec]

Init ==
    /\ ScanInit
    /\ args = NoneRec
    /\ ret = NoneRec

ScanCall == \E u \in Urls, ext \in Extracts : scan_call(1, u, ext)

GroqReply == \E rep \in Replies : groq_reply(1, rep)

Respond == respond(1)

Next == ScanCall \/ GroqReply \/ Respond

\* one request at a time, the wide input domain
Spec == Init /\ [][Next]_vars

PairScanCall == \E i \in Slots, u \in PairUrls, ext \in PairExtracts : scan_call(i, u, ext)

PairGroqReply == \E i \in Slots, rep \in PairReplies : groq_reply(i, rep)

PairRespond == \E i \in Slots : respond(i)

PairNext == PairScanCall \/ PairGroqReply \/ PairRespond

\* two requests in flight at once, a narrow input domain
SpecPair == Init /\ [][PairNext]_vars

\* ------------------------------------------- the pure functions on their own
HostAlphabet == {"1", "9", ".", "a"}

H_999 == <<"9", "9", "9", ".", "9", "9", "9", ".", "9", "9", "9", ".", "9", "9", "9">>
H_IP_999 == <<"1", "9", "2", ".", "1", "6", "8", ".", "1", ".", "9", "9", "9">>
H_FIVE_GROUPS == <<"1", "9", "2", ".", "1", "6", "8", ".", "1", ".", "1", ".", "1">>
H_FOUR_DIGITS == <<"1", "9", "2", ".", "1", "6", "8", "0", ".", "1", ".", "1">>
H_NEWLINE == <<"1", "9", "2", ".", "1", "6", "8", ".", "1", ".", "1", "\n">>

NamedHosts == {H_IP, H_IP_999, H_999, H_FIVE_GROUPS, H_FOUR_DIGITS, H_NEWLINE, H_HYPHENS, H_PLAIN}

Hosts == SeqsUpTo(HostAlphabet, MaxHostLen) \cup NamedHosts

FeatureSets ==
    [host : {<<>>}, url_length : 69..(70 + LenSpan), num_dots : {0},
     num_hyphens : 0..MaxHyphens, has_https : BOOLEAN,
     looks_like_ip : BOOLEAN, suspicious_tld : BOOLEAN]

PureInit ==
    /\ ScanInit
    /\ args \in {[kind |-> "is_ip", host |-> h] : h \in Hosts}
                   \cup {[kind |-> "ml_score_calc", a |-> f, b |-> g] : f, g \in FeatureSets}
    /\ ret = NoneRec

call_is_ip ==
    /\ args.kind = "is_ip"
    /\ ret = NoneRec
    /\ ret' = [kind |-> "returned", value |-> is_ip(args.host)]
    /\ UNCHANGED <<tldextract_bound, pc, req, features, ml, groq_calls, reply, outcome, args>>

\* ml_score_calc applied to two FeatureSets
call_ml_score_calc ==
    /\ args.kind = "ml_score_calc"
    /\ ret = NoneRec
    /\ ret' = [kind |-> "returned", a |-> ml_score_calc(args.a), b |-> ml_score_calc(args.b)]
    /\ UNCHANGED <<tldextract_bound, pc, req, features, ml, groq_calls, reply, outcome, args>>

PureNext == call_is_ip \/ call_ml_score_calc

SpecPure == PureInit /\ [][PureNext]_vars

\* ================================================================== claims
IsResult(i) == outcome[i].kind = "result"

Body(i) == outcome[i].body

Dist(a, b) == IF a >= b THEN a - b ELSE b - a

\* C1 as the specification states it: the verdict is the one that the returned
\* risk_score (the fused score rounded to 2 places) selects, PHISHING iff
\* risk_score >= 75, SUSPICIOUS iff 45 <= risk_score < 75, SAFE iff risk_score < 45.
C1_VerdictFromRiskScore ==
    \A i \in Slots : IsResult(i) =>
        /\ (Body(i).verdict = "PHISHING") <=> (Body(i).risk_score >= 7500)
        /\ (Body(i).verdict = "SUSPICIOUS") <=>
               (Body(i).risk_score >= 4500 /\ Body(i).risk_score < 7500)
        /\ (Body(i).verdict = "SAFE") <=> (Body(i).risk_score < 4500)

\* C2: the risk_score of every response is 0.45*ml_score + 0.55*genai_score of
\* that same response rounded to the nearest hundredth; ml_score 45 with
\* genai_score 80 gives 64.25 and SUSPICIOUS (a host that looks like an IP has
\* no hyphen, so scan never reaches the ml_score 65 of the 73.25 example).
C2_RiskScoreIsFusion ==
    \A i \in Slots : IsResult(i) =>
        /\ Dist(100 * Body(i).risk_score,
                4500 * Body(i).ml_score + 55 * Body(i).genai_score) <= 50
        /\ (Body(i).ml_score = 45 /\ Body(i).genai_score = 8000) =>
               (Body(i).risk_score = 6425 /\ Body(i).verdict = "SUSPICIOUS")

C2_Witness ==
    /\ IsResult(1)
    /\ Body(1).ml_score = 45
    /\ Body(1).genai_score = 8000
    /\ Body(1).risk_score = 6425

\* the rule table of the heuristic scorer, as the specification lists it
RuleHolds(f, k) ==
    CASE k = 1 -> f.looks_like_ip
      [] k = 2 -> f.suspicious_tld
      [] k = 3 -> f.url_length > 70
      [] k = 4 -> f.num_hyphens >= 3
      [] k = 5 -> ~f.has_https

RuleWeight == <<20, 15, 10, 10, 10>>

RuleReason == <<R_IP, R_TLD, R_LONG, R_HYPHENS, R_HTTPS>>

Triggered(f) == {k \in 1..5 : RuleHolds(f, k)}

RECURSIVE WeightSum(_)
WeightSum(T) == IF T = {} THEN 0 ELSE LET k == CHOOSE x \in T : TRUE IN RuleWeight[k] + WeightSum(T \ {k})

\* the k-th smallest rule of T
Nth(T, k) == CHOOSE j \in T : Cardinality({m \in T : m < j}) = k - 1

ScorerContract(f, res) ==
    /\ res.score = Min(WeightSum(Triggered(f)), 100)
    /\ Len(res.reasons) = Cardinality(Triggered(f))
    /\ \A k \in 1..Len(res.reasons) : res.reasons[k] = RuleReason[Nth(Triggered(f), k)]
    /\ (Triggered(f) = 1..5) => (res.score = 65 /\ res.reasons = RuleReason)
    /\ (Triggered(f) = {}) => (res.score = 0 /\ res.reasons = <<>>)

ScorerReturned == args.kind = "ml_score_calc" /\ ret.kind = "returned"

\* C3: ml_score_calc returns the sum of the weights of exactly the rules that
\* hold, capped at 100, and their reason strings once each in rule order; all
\* five rules give 65 and five reasons, no rule gives 0 and no reason.
C3_ScoreIsSumOfTriggeredRules ==
    ScorerReturned => (ScorerContract(args.a, ret.a) /\ ScorerContract(args.b, ret.b))

C3_Witness ==
    /\ ScorerReturned
    /\ Triggered(args.a) = 1..5
    /\ args.a.url_length = 71
    /\ args.a.num_hyphens = 3
    /\ ret.a.score = 65
    /\ Triggered(args.b) = {}
    /\ ret.b.reasons = <<>>

\* C4: the heuristic score lies in 0..100, and a FeatureSet whose triggered
\* rules are a subset of another's never scores higher than the other.
C4_ScoreBoundedAndMonotone ==
    ScorerReturned =>
        /\ ret.a.score \in 0..100
        /\ ret.b.score \in 0..100
        /\ (Triggered(args.a) \subseteq Triggered(args.b)) => (ret.a.score <= ret.b.score)

C4_Witness ==
    /\ ScorerReturned
    /\ Triggered(args.a) = {5}
    /\ Triggered(args.b) = {2, 4, 5}
    /\ ret.a.score = 10
    /\ ret.b.score = 35

\* the top_reasons that the reply of slot i contributes
TopOf(i) ==
    IF reply[i].value.top_reasons.t = "list" THEN reply[i].value.top_reasons.v ELSE <<>>

\* C5: reasons is the first min(6, n) entries of ml_reasons followed by
\* top_reasons: at most 6, heuristic reasons first, duplicates kept, and a reply
\* without top_reasons adds none.
C5_ReasonsMergedAndCapped ==
    \A i \in Slots : IsResult(i) =>
        LET mlr == ml[i].reasons
            top == TopOf(i)
            out == Body(i).reasons
        IN  /\ Len(out) = Min(6, Len(mlr) + Len(top))
            /\ \A k \in 1..Len(out) :
                   out[k] = IF k <= Len(mlr) THEN mlr[k] ELSE top[k - Len(mlr)]
            /\ (reply[i].value.top_reasons = Absent) => (out = Take(mlr, 6))

C5_Witness ==
    /\ IsResult(1)
    /\ ml[1].reasons = <<R_IP, R_TLD, R_LONG, R_HTTPS>>
    /\ TopOf(1) = <<R_HTTPS, "Brand impersonation", R_HTTPS>>
    /\ Body(1).reasons = <<R_IP, R_TLD, R_LONG, R_HTTPS, R_HTTPS, "Brand impersonation">>

ResponseKeys ==
    {"url", "verdict", "risk_score", "ml_score", "genai_score", "reasons", "signals", "genai_summary"}

\* C7: a finished scan is either an error without a response or a response
\* with all eight fields; a failed external call or a reply that does not
\* parse ends in the error; a response exists only after a parsed reply, and
\* the external service is called at most once per request.
C7_ErrorOrCompleteResult ==
    \A i \in Slots :
        /\ (pc[i] = "done") <=> (outcome[i].kind \in {"error", "result"})
        /\ IsResult(i) => (DOMAIN Body(i) = ResponseKeys /\ reply[i].kind = "dict" /\ groq_calls[i] = 1)
        /\ (pc[i] = "done" /\ reply[i] # NoneRec /\ reply[i].kind \in {"failure", "invalid", "nondict"}) =>
               outcome[i].kind = "error"
        /\ groq_calls[i] <= 1

C7_Witness ==
    /\ pc[1] = "done"
    /\ reply[1] = [kind |-> "failure"]
    /\ outcome[1] = Error("APIError")
    /\ groq_calls[1] = 1
    /\ ml[1].score = 55

\* C8: two scans with the same FeatureSet and the same external genai_score
\* return the same verdict and risk_score whatever verdict label and notes the
\* external replies carry; the raw reply is returned in genai_summary.
C8_ExternalLabelIgnored ==
    /\ \A i \in Slots : IsResult(i) => Body(i).genai_summary = reply[i].value
    /\ (/\ IsResult(1)
        /\ IsResult(2)
        /\ features[1] = features[2]
        /\ reply[1].value.genai_score = reply[2].value.genai_score) =>
           /\ Body(1).verdict = Body(2).verdict
           /\ Body(1).risk_score = Body(2).risk_score

C8_Witness ==
    /\ IsResult(1)
    /\ IsResult(2)
    /\ features[1] = features[2]
    /\ reply[1].value.genai_score = Num(8000)
    /\ reply[2].value.genai_score = Num(8000)
    /\ reply[1].value.verdict = Str("PHISHING")
    /\ reply[2].value.verdict = Str("SAFE")
    /\ reply[1].value.notes # reply[2].value.notes
    /\ Body(1).verdict = "SUSPICIOUS"
    /\ Body(2).verdict = "SUSPICIOUS"

\* the host cut at its dots: the positions of the cuts, both ends included
Cuts(h) == {0, Len(h) + 1} \cup {i \in 1..Len(h) : h[i] = "."}

\* exactly four dot-separated groups of 1 to 3 digits
FourDigitGroups(h) ==
    /\ Cardinality(Cuts(h)) = 5
    /\ \A i \in 1..Len(h) : h[i] \in Digits \cup {"."}
    /\ \A a, b \in Cuts(h) :
           (a < b /\ ~\E c \in Cuts(h) : a < c /\ c < b) => (b - a - 1) \in 1..3

\* C9: is_ip is true exactly for four dot-separated groups of 1 to 3 digits,
\* whatever the value of a group: 192.168.1.1, 192.168.1.999 and
\* 999.999.999.999 are accepted; three or five groups, an empty or 4-digit
\* group, a non-digit character and the empty host are rejected.
C9_IsIpIsFourDigitGroups ==
    (args.kind = "is_ip" /\ ret.kind = "returned") =>
        /\ ret.value <=> FourDigitGroups(args.host)
        /\ (args.host \in {H_IP, H_IP_999, H_999}) => ret.value
        /\ (args.host \in {<<>>, H_FIVE_GROUPS, H_FOUR_DIGITS, H_NEWLINE, H_PLAIN,
                           <<"1", ".", "1", ".", "1">>, <<"1", ".", ".", "1", ".", "1">>,
                           <<"1", ".", "1", ".", "1", ".", "a">>}) => ~ret.value

C9_Witness ==
    /\ args.kind = "is_ip"
    /\ args.host = H_999
    /\ ret.kind = "returned"
    /\ ret.value = TRUE

\* C10: the heuristic score is a multiple of 5 in 0..65, so a scan whose
\* genai_score is at most 83 is never PHISHING and one whose genai_score is at
\* most 28 is always SAFE.
C10_HeuristicCannotEscalate ==
    \A i \in Slots :
        /\ (pc[i] = "awaiting") => (ml[i].score \in {5 * k : k \in 0..13})
        /\ IsResult(i) =>
               /\ Body(i).ml_score \in {5 * k : k \in 0..13}
               /\ (Body(i).genai_score <= 8300) => (Body(i).verdict # "PHISHING")
               /\ (Body(i).genai_score <= 2800) => (Body(i).verdict = "SAFE")

C10_Witness ==
    /\ IsResult(1)
    /\ Body(1).ml_score = 55
    /\ Body(1).genai_score = 8300
    /\ Body(1).verdict = "SUSPICIOUS"

====
